---------------------------- MODULE Spec2Model ----------------------------
(***************************************************************************)
(* A model of chess_analytica/ChessDotCom.py: the Profile record with its  *)
(* archived and active game lists, the time-control filter, the            *)
(* move-frequency queries and the pairwise-swap sort they end with.        *)
(*                                                                         *)
(* Strings that the code inspects character by character (time-control     *)
(* tokens and filter selectors) are tuples of one-character strings.       *)
(* A Move is named by its UCI text; Python's None is the value None.       *)
(* Python lists are held in a heap of named list objects so that           *)
(* "self.games = self.all_games" is an alias and not a copy.               *)
(***************************************************************************)
EXTENDS Integers, Sequences, FiniteSets, TLC

VARIABLES
    games_data,          \* self.games_data: archived game records
    current_games_data,  \* self.current_games_data: in-progress game records
    heap,                \* the list objects: all_games, current_games, filtered
    games,               \* self.games: the name of the list object it refers to
    call,                \* the last operation called and its arguments
    ret,                 \* what that operation returned or raised
    io                   \* the constructor's surroundings: its argument, the
                         \* cache file, the API, and what it did with them

vars == <<games_data, current_games_data, heap, games, call, ret, io>>

-----------------------------------------------------------------------------
(* Bounds of the model *)

MaxGames == 2
MaxCurrent == 1
NumPos == 3
MaxSortLen == 3
MaxFreq == 2

-----------------------------------------------------------------------------
(* Values *)

username == "aronfrish"
opponent == "opponent"

None == "None"

Moves == {"g1f3", "d2d4", "d1h5"}

\* the move lists the games of the query corpus are drawn from
MoveLists ==
    {<<>>, <<"g1f3">>, <<"d2d4">>, <<"g1f3", "d2d4">>, <<"d2d4", "g1f3">>}

\* time-control tokens, character by character
TC_600 == <<"6", "0", "0">>
TC_900_10 == <<"9", "0", "0", "+", "1", "0">>
TC_1800 == <<"1", "8", "0", "0">>
TC_60 == <<"6", "0">>
TC_60_1 == <<"6", "0", "+", "1">>
TC_120_0 == <<"1", "2", "0", "+", "0">>
TC_180 == <<"1", "8", "0">>
TC_180_2 == <<"1", "8", "0", "+", "2">>
TC_300 == <<"3", "0", "0">>
TC_86400 == <<"8", "6", "4", "0", "0">>
TC_30 == <<"3", "0">>
TC_15 == <<"1", "5">>

TimeControls ==
    {TC_600, TC_900_10, TC_1800, TC_60, TC_60_1, TC_120_0,
     TC_180, TC_180_2, TC_300, TC_86400, TC_30, TC_15}

\* symbolic selectors
S_all == <<"a", "l", "l">>
S_rapid == <<"r", "a", "p", "i", "d">>
S_bullet == <<"b", "u", "l", "l", "e", "t">>
S_blitz == <<"b", "l", "i", "t", "z">>
S_daily == <<"d", "a", "i", "l", "y">>
S_Rapid == <<"R", "a", "p", "i", "d">>
S_BULLET == <<"B", "U", "L", "L", "E", "T">>
S_classical == <<"c", "l", "a", "s", "s", "i", "c", "a", "l">>

Selectors ==
    {S_all, S_rapid, S_bullet, S_blitz, S_daily, S_Rapid, S_BULLET, S_classical}
        \cup TimeControls

QuerySelectors == {S_all, S_bullet, TC_600}

Positions == 0 .. (NumPos - 1)

StartPos == 0

-----------------------------------------------------------------------------
(* Board: the game object built from a PGN.  The queries read its          *)
(* white_player and time_control and call containsFEN and getNextMove.     *)

Board(pgn) ==
    [uid |-> pgn.uid,
     white_player |-> pgn.White,
     time_control |-> pgn.TimeControl,
     moves |-> pgn.movetext]

\* the displacement a move applies to a position
MoveDelta(m) ==
    CASE m = "g1f3" -> 1
      [] m = "d2d4" -> 2
      [] m = "d1h5" -> 3
      [] OTHER -> 0

Apply(p, m) == (p + MoveDelta(m)) % NumPos

\* the positions a game visits: the start, then one per ply
RECURSIVE PositionIndex(_)
PositionIndex(moves) ==
    IF moves = <<>> THEN <<StartPos>>
    ELSE LET before == PositionIndex(SubSeq(moves, 1, Len(moves) - 1))
         IN Append(before, Apply(before[Len(before)], moves[Len(moves)]))

containsFEN(board, FEN) ==
    LET index == PositionIndex(board.moves)
    IN \E i \in 1 .. Len(index) : index[i] = FEN

\* the move played right after the first occurrence of FEN; None when the
\* position never occurs or occurs only as the final position
getNextMove(board, FEN) ==
    LET index == PositionIndex(board.moves)
        occurrences == {i \in 1 .. Len(index) : index[i] = FEN}
        first == CHOOSE i \in occurrences : \A k \in occurrences : i <= k
    IN IF occurrences = {} THEN None
       ELSE IF first > Len(board.moves) THEN None
       ELSE board.moves[first]

\* a move text the replayer cannot apply
BadMove == "e9e9"

\* a game whose replay fails: its lookups raise IllegalMove
Corrupt(board) == \E i \in 1 .. Len(board.moves) : board.moves[i] = BadMove

-----------------------------------------------------------------------------
(* Profile.__init__, after the data was loaded or scraped *)

BoardsOf(data) == [i \in 1 .. Len(data) |-> Board(data[i].pgn)]

\* "for game in self.current_games": the loop runs over the list it fills
CurrentBoards ==
    LET iterated == <<>>
    IN [i \in 1 .. Len(iterated) |-> Board(iterated[i].pgn)]

\* the record of a call, and of what it returned, before any field is set
NoCall == [op |-> "__init__", type |-> <<>>, FEN |-> StartPos, white |-> TRUE,
           moves |-> <<>>, frequencies |-> <<>>, done |-> TRUE]

NoRet == [moves |-> <<>>, frequencies |-> <<>>, table |-> "", move |-> None,
          exc |-> "none"]

\* the cache file: absent, or the pickled fields save_info dumped
NoFile == [exists |-> FALSE, games_data |-> <<>>, current_games_data |-> <<>>]

File(gd, cgd) == [exists |-> TRUE, games_data |-> gd, current_games_data |-> cgd]

\* retrieve_player_profile, _player_stats, _player_current_games, _player_games
Retrievals == <<"player_profile", "player_stats", "player_current_games",
                "player_games">>

\* load_info: False when there is no file; otherwise the fields are read and
\* the function ends with no return statement, which returns None
load_info(file) ==
    IF ~file.exists
    THEN [returned |-> "False", games_data |-> <<>>, current_games_data |-> <<>>]
    ELSE [returned |-> "None", games_data |-> file.games_data,
          current_games_data |-> file.current_games_data]

NotCalled == [returned |-> "not called", games_data |-> <<>>,
              current_games_data |-> <<>>]

\* the truth value "if" gives to what load_info returned
Truthy(returned) == returned = "True"

\* the surroundings of a record that was constructed with import_save = False
Scraped(gd, cgd) ==
    [pc |-> "done", import_save |-> FALSE, file |-> NoFile,
     api |-> File(gd, cgd), load_info |-> "not called",
     retrieved |-> Retrievals, saved |-> File(gd, cgd)]

Construct(gd, cgd) ==
    /\ games_data = gd
    /\ current_games_data = cgd
    /\ heap = [all_games |-> BoardsOf(gd),
               current_games |-> CurrentBoards,
               filtered |-> <<>>]
    /\ games = "all_games"
    /\ call = NoCall
    /\ ret = NoRet
    /\ io = Scraped(gd, cgd)

\* Profile(username, import_save)
ProfileInit(import_save) ==
    /\ io.pc = "new"
    /\ LET loaded == IF import_save THEN load_info(io.file) ELSE NotCalled
           cached == import_save /\ Truthy(loaded.returned)
           gd == IF cached THEN loaded.games_data ELSE io.api.games_data
           cgd == IF cached THEN loaded.current_games_data
                  ELSE io.api.current_games_data
       IN /\ games_data' = gd
          /\ current_games_data' = cgd
          /\ heap' = [all_games |-> BoardsOf(gd),
                      current_games |-> CurrentBoards,
                      filtered |-> <<>>]
          /\ io' = [io EXCEPT !.pc = "done",
                              !.import_save = import_save,
                              !.load_info = loaded.returned,
                              !.retrieved = IF cached THEN <<>> ELSE Retrievals,
                              !.saved = IF cached THEN NoFile ELSE File(gd, cgd)]
    /\ games' = "all_games"
    /\ call' = NoCall
    /\ ret' = NoRet

all_games == heap.all_games

current_games == heap.current_games

\* the list self.games refers to
ActiveGames == heap[games]

-----------------------------------------------------------------------------
(* Profile.filterGameType *)

UpperCase == <<"A", "B", "C", "D", "E", "F", "G", "H", "I", "J", "K", "L", "M",
               "N", "O", "P", "Q", "R", "S", "T", "U", "V", "W", "X", "Y", "Z">>

LowerCase == <<"a", "b", "c", "d", "e", "f", "g", "h", "i", "j", "k", "l", "m",
               "n", "o", "p", "q", "r", "s", "t", "u", "v", "w", "x", "y", "z">>

LowerChar(c) ==
    IF \E k \in 1 .. 26 : UpperCase[k] = c
    THEN LowerCase[CHOOSE k \in 1 .. 26 : UpperCase[k] = c]
    ELSE c

\* str.lower()
Lower(type) == [i \in 1 .. Len(type) |-> LowerChar(type[i])]

\* "0" in type
HasZero(type) == \E i \in 1 .. Len(type) : type[i] = "0"

ClearGamesKeep(h, g) == [heap |-> h, games |-> g]

ClearGamesNoReset(h, g) == [heap |-> h, games |-> "filtered"]

\* self.games = []: the name is bound to a fresh empty list
ClearGames(h, g) ==
    [heap |-> [h EXCEPT !.filtered = <<>>], games |-> "filtered"]

\* for game in self.all_games: if <test>: self.games.append(game),
\* where found are the games of all_games that pass the test, in order
AppendGames(s, found) ==
    [heap |-> [s.heap EXCEPT ![s.games] = s.heap[s.games] \o found],
     games |-> s.games]

IsLiteral(type, game) == game.time_control = type

IsRapid(game) ==
    \/ game.time_control = TC_600
    \/ game.time_control = TC_900_10
    \/ game.time_control = TC_1800

IsBulletWith180(game) ==
    \/ game.time_control = TC_60
    \/ game.time_control = TC_60_1
    \/ game.time_control = TC_120_0
    \/ game.time_control = TC_180

IsBullet(game) ==
    \/ game.time_control = TC_60
    \/ game.time_control = TC_60_1
    \/ game.time_control = TC_120_0

IsBlitz(game) ==
    \/ game.time_control = TC_180
    \/ game.time_control = TC_180_2
    \/ game.time_control = TC_300

IsDaily(game) == game.time_control = TC_86400

\* self.games = self.all_games
SelectAll(s) == [heap |-> s.heap, games |-> "all_games"]

UnknownTypeAsAll(s) == [heap |-> s.heap, games |-> "all_games"]

\* no branch of the elif chain matches: nothing more is done
UnknownType(s) == s

filterGameType(h, g, type) ==
    LET cleared == ClearGames(h, g)
        all == cleared.heap.all_games
    IN IF HasZero(type)
       THEN AppendGames(cleared, SelectSeq(all, LAMBDA game : IsLiteral(type, game)))
       ELSE LET t == Lower(type)
            IN IF t = S_all THEN SelectAll(cleared)
               ELSE IF t = S_rapid THEN AppendGames(cleared, SelectSeq(all, IsRapid))
               ELSE IF t = S_bullet THEN AppendGames(cleared, SelectSeq(all, IsBullet))
               ELSE IF t = S_blitz THEN AppendGames(cleared, SelectSeq(all, IsBlitz))
               ELSE IF t = S_daily THEN AppendGames(cleared, SelectSeq(all, IsDaily))
               ELSE UnknownType(cleared)

FilterGameType(type) ==
    /\ LET after == filterGameType(heap, games, type)
       IN /\ heap' = after.heap
          /\ games' = after.games
    /\ call' = [NoCall EXCEPT !.op = "filterGameType", !.type = type]
    /\ ret' = NoRet
    /\ UNCHANGED <<games_data, current_games_data, io>>

-----------------------------------------------------------------------------
(* sortMovesAndFrequencies: for each i, every later j with a strictly      *)
(* larger frequency is swapped into place i, moves and frequencies alike   *)

SwapSeq(s, i, j) == [s EXCEPT ![i] = s[j], ![j] = s[i]]

SwapFrequenciesOnly(mf, i, j) ==
    [moves |-> mf.moves, frequencies |-> SwapSeq(mf.frequencies, i, j)]

SwapBoth(mf, i, j) ==
    [moves |-> SwapSeq(mf.moves, i, j),
     frequencies |-> SwapSeq(mf.frequencies, i, j)]

NotGreater(frequencies, i, j) == frequencies[i] <= frequencies[j]

\* frequencies[i] < frequencies[j]
Less(frequencies, i, j) == frequencies[i] < frequencies[j]

RECURSIVE SortInner(_, _, _)
SortInner(mf, i, j) ==
    IF j > Len(mf.frequencies) THEN mf
    ELSE SortInner(IF Less(mf.frequencies, i, j) THEN SwapBoth(mf, i, j) ELSE mf,
                   i, j + 1)

RECURSIVE SortOuter(_, _)
SortOuter(mf, i) ==
    IF i > Len(mf.frequencies) THEN mf
    ELSE SortOuter(SortInner(mf, i, i + 1), i + 1)

sortMovesAndFrequencies(moves, frequencies) ==
    SortOuter([moves |-> moves, frequencies |-> frequencies], 1)

\* the call of the function on the lists it was handed
SortMovesAndFrequencies ==
    /\ call.op = "sortMovesAndFrequencies"
    /\ ~call.done
    /\ call' = [call EXCEPT !.done = TRUE]
    /\ LET sorted == sortMovesAndFrequencies(call.moves, call.frequencies)
       IN ret' = [NoRet EXCEPT !.moves = sorted.moves,
                               !.frequencies = sorted.frequencies]
    /\ UNCHANGED <<games_data, current_games_data, heap, games, io>>

-----------------------------------------------------------------------------
(* The frequency queries *)

\* "for board in self.games: if (board.containsFEN(FEN))" stands in no try:
\* the error of the first corrupt board leaves findGamesWithFEN and its callers
Raises(active) == \E i \in 1 .. Len(active) : Corrupt(active[i])

Raised == [NoRet EXCEPT !.exc = "IllegalMove"]

findGamesWithFEN(active, FEN) ==
    SelectSeq(active, LAMBDA board : containsFEN(board, FEN))

ColorIgnored(game, white) == TRUE

\* (game.white_player == self.username) == (white == True)
ColorMatches(game, white) ==
    (game.white_player = username) <=> (white = TRUE)

IndexOf(seq, x) == CHOOSE i \in 1 .. Len(seq) : seq[i] = x /\ \A k \in 1 .. (i - 1) : seq[k] # x

\* one pass of the loop body for a matching game
Tally(mf, next_move) ==
    IF \E i \in 1 .. Len(mf.moves) : mf.moves[i] = next_move
    THEN [moves |-> mf.moves,
          frequencies |-> [mf.frequencies EXCEPT ![IndexOf(mf.moves, next_move)] = @ + 1]]
    ELSE [moves |-> Append(mf.moves, next_move),
          frequencies |-> Append(mf.frequencies, 1)]

\* the loop over the games that contain the position, first game first
RECURSIVE TallyGames(_, _, _)
TallyGames(found, FEN, white) ==
    IF found = <<>> THEN [moves |-> <<>>, frequencies |-> <<>>]
    ELSE LET before == TallyGames(SubSeq(found, 1, Len(found) - 1), FEN, white)
             game == found[Len(found)]
         IN IF ColorMatches(game, white)
            THEN Tally(before, getNextMove(game, FEN))
            ELSE before

findMovesAfterFEN(active, FEN, white) ==
    LET counted == TallyGames(findGamesWithFEN(active, FEN), FEN, white)
    IN sortMovesAndFrequencies(counted.moves, counted.frequencies)

\* str(moves[i]) + ": " + str(frequencies[i]) + "\n", line after line
RECURSIVE TableLines(_, _, _)
TableLines(moves, frequencies, n) ==
    IF n = 0 THEN ""
    ELSE TableLines(moves, frequencies, n - 1)
             \o moves[n] \o ": " \o ToString(frequencies[n]) \o "\n"

moveTable(active, FEN, white) ==
    LET mf == findMovesAfterFEN(active, FEN, white)
    IN TableLines(mf.moves, mf.frequencies, Len(mf.moves))

LastMove(moves) ==
    IF moves = <<>> THEN [move |-> None, exc |-> "IndexError"]
    ELSE [move |-> moves[Len(moves)], exc |-> "none"]

\* moves[0]: an IndexError on an empty list
FirstMove(moves) ==
    IF moves = <<>> THEN [move |-> None, exc |-> "IndexError"]
    ELSE [move |-> moves[1], exc |-> "none"]

mostCommonMove(active, FEN, white) ==
    FirstMove(findMovesAfterFEN(active, FEN, white).moves)

FindMovesAfterFEN(FEN, white) ==
    /\ call' = [NoCall EXCEPT !.op = "findMovesAfterFEN", !.FEN = FEN, !.white = white]
    /\ LET found == findMovesAfterFEN(ActiveGames, FEN, white)
       IN ret' = IF Raises(ActiveGames) THEN Raised
                 ELSE [NoRet EXCEPT !.moves = found.moves,
                                    !.frequencies = found.frequencies]
    /\ UNCHANGED <<games_data, current_games_data, heap, games, io>>

MoveTable(FEN, white) ==
    /\ call' = [NoCall EXCEPT !.op = "moveTable", !.FEN = FEN, !.white = white]
    /\ ret' = IF Raises(ActiveGames) THEN Raised
              ELSE [NoRet EXCEPT !.table = moveTable(ActiveGames, FEN, white)]
    /\ UNCHANGED <<games_data, current_games_data, heap, games, io>>

MostCommonMove(FEN, white) ==
    /\ call' = [NoCall EXCEPT !.op = "mostCommonMove", !.FEN = FEN, !.white = white]
    /\ LET first == mostCommonMove(ActiveGames, FEN, white)
       IN ret' = IF Raises(ActiveGames) THEN Raised
                 ELSE [NoRet EXCEPT !.move = first.move, !.exc = first.exc]
    /\ UNCHANGED <<games_data, current_games_data, heap, games, io>>

-----------------------------------------------------------------------------
(* The specification of the filter: corpora that differ in time control *)

ArchivedPgn(i, white, tc, moves) ==
    [pgn |-> [uid |-> <<"archive", i>>, White |-> white, TimeControl |-> tc,
              movetext |-> moves]]

CurrentPgn(i) ==
    [pgn |-> [uid |-> <<"current", i>>, White |-> username, TimeControl |-> TC_86400,
              movetext |-> <<>>]]

CurrentData == [i \in 1 .. MaxCurrent |-> CurrentPgn(i)]

Init ==
    \E n \in 0 .. MaxGames : \E tcs \in [1 .. n -> TimeControls] :
        Construct([i \in 1 .. n |-> ArchivedPgn(i, username, tcs[i], <<"g1f3">>)],
                  CurrentData)

Next ==
    \/ \E type \in Selectors : FilterGameType(type)
    \/ FindMovesAfterFEN(StartPos, TRUE)
    \/ MoveTable(StartPos, TRUE)
    \/ MostCommonMove(StartPos, TRUE)

Spec == Init /\ [][Next]_vars

-----------------------------------------------------------------------------
(* The specification of the queries: corpora that differ in the player's   *)
(* colour and in the moves played                                          *)

QueryInit ==
    \E n \in 0 .. MaxGames :
        \E whites \in [1 .. n -> {username, opponent}], lists \in [1 .. n -> MoveLists] :
            Construct([i \in 1 .. n |-> ArchivedPgn(i, whites[i], TC_600, lists[i])],
                      CurrentData)

QueryNext ==
    \/ \E type \in QuerySelectors : FilterGameType(type)
    \/ \E FEN \in Positions, white \in BOOLEAN : FindMovesAfterFEN(FEN, white)
    \/ \E FEN \in Positions, white \in BOOLEAN : MoveTable(FEN, white)
    \/ \E FEN \in Positions, white \in BOOLEAN : MostCommonMove(FEN, white)

QuerySpec == QueryInit /\ [][QueryNext]_vars

-----------------------------------------------------------------------------
(* The specification of the sort alone: every pair of equal-length lists   *)

SortInit ==
    \E n \in 0 .. MaxSortLen :
        \E moves \in [1 .. n -> Moves \cup {None}], frequencies \in [1 .. n -> 1 .. MaxFreq] :
            /\ games_data = <<>>
            /\ current_games_data = <<>>
            /\ heap = [all_games |-> <<>>, current_games |-> <<>>, filtered |-> <<>>]
            /\ games = "all_games"
            /\ call = [NoCall EXCEPT !.op = "sortMovesAndFrequencies",
                                     !.moves = moves, !.frequencies = frequencies,
                                     !.done = FALSE]
            /\ ret = NoRet
            /\ io = Scraped(<<>>, <<>>)

SortNext == SortMovesAndFrequencies

SortSpec == SortInit /\ [][SortNext]_vars


-----------------------------------------------------------------------------
(* The specification of the queries over corpora that may hold a game      *)
(* whose replay fails                                                      *)

CorruptMoveLists == {<<"g1f3">>, <<"d2d4">>, <<"g1f3", BadMove>>}

CorruptInit ==
    \E n \in 0 .. MaxGames :
        \E whites \in [1 .. n -> {username, opponent}],
           lists \in [1 .. n -> CorruptMoveLists] :
            Construct([i \in 1 .. n |-> ArchivedPgn(i, whites[i], TC_600, lists[i])],
                      CurrentData)

CorruptSpec == CorruptInit /\ [][QueryNext]_vars

-----------------------------------------------------------------------------
(* The specification of the constructor: the record is not built yet, the  *)
(* cache file is absent or holds an earlier scrape, the API has its data   *)

CacheTimeControls == {TC_600, TC_60}

CurrentDataUpTo(m) == [i \in 1 .. m |-> CurrentPgn(i)]

ConstructInit ==
    \E n \in 0 .. MaxGames, m \in 0 .. MaxCurrent, exists \in BOOLEAN,
       fn \in 0 .. MaxGames, fm \in 0 .. MaxCurrent :
        \E tcs \in [1 .. n -> CacheTimeControls],
           ftcs \in [1 .. fn -> CacheTimeControls] :
            /\ games_data = <<>>
            /\ current_games_data = <<>>
            /\ heap = [all_games |-> <<>>, current_games |-> <<>>, filtered |-> <<>>]
            /\ games = "all_games"
            /\ call = [NoCall EXCEPT !.done = FALSE]
            /\ ret = NoRet
            /\ io = [pc |-> "new", import_save |-> FALSE,
                     file |-> IF exists
                              THEN File([i \in 1 .. fn |->
                                            ArchivedPgn(i, username, ftcs[i], <<"g1f3">>)],
                                        CurrentDataUpTo(fm))
                              ELSE NoFile,
                     api |-> File([i \in 1 .. n |->
                                      ArchivedPgn(i, username, tcs[i], <<"g1f3">>)],
                                  CurrentDataUpTo(m)),
                     load_info |-> "not called", retrieved |-> <<>>,
                     saved |-> NoFile]

ConstructNext == \E import_save \in BOOLEAN : ProfileInit(import_save)

ConstructSpec == ConstructInit /\ [][ConstructNext]_vars

-----------------------------------------------------------------------------
(* Properties of sortMovesAndFrequencies, under SortSpec *)

SortReturned == call.op = "sortMovesAndFrequencies" /\ call.done

\* how often the pair (m, f) stands at one index of the two lists
PairCount(ms, fs, m, f) ==
    Cardinality({i \in 1 .. Len(ms) : ms[i] = m /\ fs[i] = f})

\* the place of x in a list that holds it once
PlaceOf(seq, x) == CHOOSE i \in 1 .. Len(seq) : seq[i] = x

Distinct(seq) == \A i, j \in 1 .. Len(seq) : seq[i] = seq[j] => i = j

MaxOf(fs) == CHOOSE f \in {fs[i] : i \in 1 .. Len(fs)} : \A k \in 1 .. Len(fs) : fs[k] <= f

\* C1: the returned frequencies are in non-increasing order, and the pairs
\* (move, frequency) at matching indexes of the result are the pairs of the
\* input, each as often as it came in: nothing is lost, duplicated or re-paired.
C1_SortedPermutation ==
    SortReturned =>
        /\ Len(ret.moves) = Len(call.moves)
        /\ Len(ret.frequencies) = Len(call.frequencies)
        /\ \A i \in 1 .. (Len(ret.frequencies) - 1) :
               ret.frequencies[i] >= ret.frequencies[i + 1]
        /\ \A i \in 1 .. Len(call.moves) :
               PairCount(ret.moves, ret.frequencies, call.moves[i], call.frequencies[i])
                   = PairCount(call.moves, call.frequencies,
                               call.moves[i], call.frequencies[i])

\* a call that had to reorder three entries, two of them with equal moves
C1_Witness ==
    /\ SortReturned
    /\ Len(call.moves) = 3
    /\ call.moves[1] = call.moves[2]
    /\ call.frequencies = <<1, 2, 2>>
    /\ ret.frequencies = <<2, 2, 1>>

\* C2 as stated: of any two moves with equal counts, the one inserted
\* earlier is ranked before the other, whatever their count.
C2_AllTiesKeepInsertionOrder ==
    (SortReturned /\ Distinct(call.moves)) =>
        \A i, j \in 1 .. Len(call.moves) :
            (i < j /\ call.frequencies[i] = call.frequencies[j]) =>
                PlaceOf(ret.moves, call.moves[i]) < PlaceOf(ret.moves, call.moves[j])

\* C2 as amended: of any two moves that both have the maximum count, the one
\* inserted earlier is ranked before the other.
C2_MaxTiesKeepInsertionOrder ==
    (SortReturned /\ Distinct(call.moves)) =>
        \A i, j \in 1 .. Len(call.moves) :
            (/\ i < j
             /\ call.frequencies[i] = MaxOf(call.frequencies)
             /\ call.frequencies[j] = MaxOf(call.frequencies)) =>
                PlaceOf(ret.moves, call.moves[i]) < PlaceOf(ret.moves, call.moves[j])

\* two moves tied at the maximum behind a less frequent one, so that the
\* sort has to move them
C2_Witness ==
    /\ SortReturned
    /\ call.moves = <<"g1f3", "d2d4", "d1h5">>
    /\ call.frequencies = <<1, 2, 2>>
    /\ ret.moves = <<"d2d4", "d1h5", "g1f3">>

-----------------------------------------------------------------------------
(* Properties of the frequency queries, under QuerySpec *)

\* the places in the active list of the games that reach the position with
\* the analysed player in the asked colour
Qualifying(FEN, white) ==
    {i \in 1 .. Len(ActiveGames) :
        /\ containsFEN(ActiveGames[i], FEN)
        /\ (ActiveGames[i].white_player = username) = white}

\* those of them that go on with move m
GamesWith(FEN, white, m) ==
    {i \in Qualifying(FEN, white) : getNextMove(ActiveGames[i], FEN) = m}

FirstGameWith(FEN, white, m) ==
    CHOOSE i \in GamesWith(FEN, white, m) : \A k \in GamesWith(FEN, white, m) : i <= k

\* C3: findMovesAfterFEN lists a move once if some qualifying game of the
\* active list plays it next and not at all otherwise, and pairs it with the
\* number of those games; games of the other colour or without the position
\* count for nothing.
C3_CountsQualifyingGames ==
    call.op = "findMovesAfterFEN" =>
        /\ Len(ret.moves) = Len(ret.frequencies)
        /\ \A m \in Moves :
               LET n == Cardinality(GamesWith(call.FEN, call.white, m))
                   places == {k \in 1 .. Len(ret.moves) : ret.moves[k] = m}
               IN /\ Cardinality(places) = IF n > 0 THEN 1 ELSE 0
                  /\ \A k \in places : ret.frequencies[k] = n

\* two games of the asked colour play the same move after the position
C3_Witness ==
    /\ call.op = "findMovesAfterFEN"
    /\ Len(ActiveGames) = 2
    /\ Cardinality(Qualifying(call.FEN, call.white)) = 2
    /\ ret.moves = <<"g1f3">>
    /\ ret.frequencies = <<2>>

C5_NoMatchIsEmptyNotError ==
    (/\ call.op \in {"findMovesAfterFEN", "moveTable", "mostCommonMove"}
     /\ Qualifying(call.FEN, call.white) = {}) =>
        /\ ret.exc = "none"
        /\ ret.moves = <<>>
        /\ ret.frequencies = <<>>
        /\ ret.table = ""
        /\ ret.move = None

\* C6: the list of moves findMovesAfterFEN returns never holds the absent
\* move: a game that ends in the position adds no entry.
C6_NoAbsentMoveInTable ==
    call.op = "findMovesAfterFEN" =>
        \A k \in 1 .. Len(ret.moves) : ret.moves[k] # None

-----------------------------------------------------------------------------
(* Properties of filterGameType, under Spec *)

Filtered == call.op = "filterGameType"

\* the token set the specification gives each class
ClassTokens(type) ==
    CASE type = S_rapid -> {TC_600, TC_900_10, TC_1800}
      [] type = S_bullet -> {TC_60, TC_60_1, TC_120_0}
      [] type = S_blitz -> {TC_180, TC_180_2, TC_300}
      [] type = S_daily -> {TC_86400}

\* the boards the constructor built from the archive
Archive == [i \in 1 .. Len(games_data) |-> Board(games_data[i].pgn)]

IsLetter(c) == \E k \in 1 .. 26 : c = UpperCase[k] \/ c = LowerCase[k]

\* C7: after a call with one of all, rapid, bullet, blitz, daily the active
\* list holds the games of all_games whose time control is in the class's
\* token set, in the order of all_games; after "all" it holds every game.
C7_SymbolicSelectsClass ==
    /\ (Filtered /\ call.type = S_all) => ActiveGames = Archive
    /\ (Filtered /\ call.type \in {S_rapid, S_bullet, S_blitz, S_daily}) =>
           ActiveGames =
               SelectSeq(Archive, LAMBDA g : g.time_control \in ClassTokens(call.type))

\* "bullet" over a 180 game and a 60 game keeps the 60 game alone
C7_Witness ==
    /\ Filtered
    /\ call.type = S_bullet
    /\ Len(all_games) = 2
    /\ all_games[1].time_control = TC_180
    /\ all_games[2].time_control = TC_60
    /\ ActiveGames = <<all_games[2]>>

\* C8: after a call with a literal token that some game carries, the active
\* list holds the games of all_games whose time control equals the token.
C8_LiteralSelectsExactMatch ==
    (Filtered /\ \E i \in 1 .. Len(Archive) : Archive[i].time_control = call.type) =>
        ActiveGames = SelectSeq(Archive, LAMBDA g : g.time_control = call.type)

\* C9: after a call with a word that is none of all, rapid, bullet, blitz,
\* daily in any case of letters, the active list is empty and nothing was
\* raised.
C9_UnknownWordSelectsNothing ==
    (/\ Filtered
     /\ \A i \in 1 .. Len(call.type) : IsLetter(call.type[i])
     /\ Lower(call.type) \notin {S_all, S_rapid, S_bullet, S_blitz, S_daily}) =>
        /\ ActiveGames = <<>>
        /\ ret.exc = "none"

\* "classical" over an archive of two games
C9_Witness ==
    /\ Filtered
    /\ call.type = S_classical
    /\ Len(all_games) = 2
    /\ ActiveGames = <<>>

\* C10: every game of the active list is a game of all_games and none is an
\* in-progress game, and all_games is the list the constructor built.
C10_ActiveWithinArchive ==
    /\ all_games = Archive
    /\ \A i \in 1 .. Len(ActiveGames) :
           /\ \E j \in 1 .. Len(all_games) : all_games[j] = ActiveGames[i]
           /\ \A j \in 1 .. Len(current_games) : current_games[j] # ActiveGames[i]
           /\ \A j \in 1 .. Len(current_games_data) :
                  current_games_data[j].pgn.uid # ActiveGames[i].uid

\* a proper, non-empty part of the archive is active in a list of its own
C10_Witness ==
    /\ Filtered
    /\ games = "filtered"
    /\ Len(ActiveGames) = 1
    /\ Len(all_games) = 2
    /\ current_games_data # <<>>

\* the active list of a record fresh from the constructor, with the same
\* all_games, after the one call filterGameType(type)
FreshlyFiltered(type) ==
    LET fresh == [all_games |-> all_games, current_games |-> <<>>,
                  filtered |-> <<>>]
        r == filterGameType(fresh, "all_games", type)
    IN r.heap[r.games]

\* C14: after any sequence of calls of filterGameType the active list is the
\* one the last call alone gives on a fresh record: the result depends on
\* the selector and all_games only, and repeated calls do not compound.
C14_LastCallAloneDecides ==
    /\ all_games = Archive
    /\ Filtered => ActiveGames = FreshlyFiltered(call.type)

\* "blitz" over a rapid game followed by a blitz game keeps the second alone
C14_Witness ==
    /\ Filtered
    /\ call.type = S_blitz
    /\ Len(all_games) = 2
    /\ all_games[1].time_control = TC_600
    /\ ActiveGames = <<all_games[2]>>

-----------------------------------------------------------------------------
(* Properties of the queries over a corpus with a corrupt game, under      *)
(* CorruptSpec                                                             *)

Sound(g) == ~Corrupt(g)

\* C11: findMovesAfterFEN raises nothing when a game of the active list is
\* corrupt: it returns the tally of the other games.  (That the skip is
\* recorded is not stated here: the code keeps no such record.)
C11_CorruptGameSkipped ==
    call.op = "findMovesAfterFEN" =>
        LET others == findMovesAfterFEN(SelectSeq(ActiveGames, Sound),
                                        call.FEN, call.white)
        IN /\ ret.exc = "none"
           /\ ret.moves = others.moves
           /\ ret.frequencies = others.frequencies

-----------------------------------------------------------------------------
(* Properties of the constructor, under ConstructSpec *)

\* C12: a record constructed with import_save = True while the cache file
\* exists had load_info return True and took the cached branch: its data is
\* the file's, no retrieve_* function was called and save_info was not called.
C12_CachedBranchTaken ==
    (io.pc = "done" /\ io.import_save /\ io.file.exists) =>
        /\ io.load_info = "True"
        /\ io.retrieved = <<>>
        /\ ~io.saved.exists
        /\ games_data = io.file.games_data
        /\ current_games_data = io.file.current_games_data

\* C13: after construction current_games holds one Board per entry of
\* current_games_data, in the same order (as all_games does for games_data).
C13_CurrentBoardsBuilt ==
    io.pc = "done" =>
        /\ current_games = BoardsOf(current_games_data)
        /\ all_games = BoardsOf(games_data)

=============================================================================
